---- MODULE Spec2Model ----
(***************************************************************************)
(* Mesh lifecycle of p2p-perf-eval: src/src/mesh.py (Mesh, NodeInfo,       *)
(* deploy_peer, get_peer_id), src/src/utils.py (create_network,            *)
(* build_image, get_free_ports) and the driver src/src/main.py (main).     *)
(*                                                                         *)
(* The program is single threaded; pc is the position of that one thread.  *)
(* The container runtime (docker daemon), the OS port allocator and the    *)
(* bootstrap's log are the environment: every runtime call may fail, the   *)
(* OS may hand out any port to a probe, the log may or may not show the    *)
(* identity.                                                               *)
(*                                                                         *)
(* Ports are compared only for equality by the code (and embedded in the   *)
(* peer's container name), so a probe's result is enumerated up to         *)
(* renaming: a port already seen in this run, or the next unseen one.      *)
(*                                                                         *)
(* More specifications share the module:                                   *)
(*   SpecMetrics  get_resource_metrics (src/experiments/simple.py) applied *)
(*                to one response of the telemetry endpoint;               *)
(*   SpecPoll     the polling loop of src/experiments/simple.py main()     *)
(*                over a deployed mesh;                                    *)
(*   SpecLogs     analyze_logs (src/main.py) applied to the logs of the    *)
(*                containers;                                              *)
(*   SpecCleanup  Mesh.cleanup (src/src/mesh.py) on a deployed mesh, with   *)
(*                the stop() and remove() calls it makes recorded;         *)
(*   SpecResolve  get_peer_id (src/src/mesh.py) reading a log line by      *)
(*                line, with SpecResolveFair for its termination.          *)
(* Each leaves the variables of the others at their initial values.        *)
(***************************************************************************)
EXTENDS Integers, Sequences, FiniteSets

\* ------------------------------------------------------------ bounds
\* num_peers is a constructor argument; the model draws it from 0..MaxPeers.
MaxPeers == 2

\* Mesh.cleanup() calls made by a caller that uses the methods directly.
MaxCleanupCalls == 2

\* ------------------------------------------------------------ constants
\* get_peer_id(timeout=10), polled every 0.5 s: the clock counts half seconds.
TimeoutTicks == 20

\* One time.sleep(0.5) in half seconds.
SleepTicks == 1

None == 0

BOOTSTRAP_NAME == <<"bootstrap-node", 0>>

\* f"p2p-peer-node-{api_port}"
PeerName(api_port) == <<"p2p-peer-node", api_port>>

VARIABLES
    pc,               \* position of the program
    usage,            \* "with": main()'s `with Mesh(...) as mesh`; "direct": deploy()/cleanup() called as methods
    num_peers,        \* Mesh.num_peers
    network,          \* Mesh.network: None or the handle (id) of the network
    nodes,            \* Mesh.nodes: sequence of NodeInfo
    api_ports,        \* deploy's local api_ports
    metrics_ports,    \* deploy's local metrics_ports
    bootstrap_peer_id,\* deploy's local bootstrap_peer_id
    i,                \* deploy's peer loop index
    elapsed,          \* get_peer_id: time.time() - start_time, in half seconds
    bootlog,          \* what the bootstrap container's log starts with: "empty", "id", "other"
    rt_nets,          \* runtime: ids of the networks named NETWORK_NAME
    rt_ctrs,          \* runtime: the containers
    next_id,          \* runtime: next fresh id
    exc,              \* the exception in flight ("none" when there is none)
    caught,           \* the exception main()'s except clause received
    cj,               \* Mesh.cleanup: index of the node visited next
    \* ---- history (observation only; never read by the program)
    launched,         \* ids of the containers this deploy created in the runtime
    deploy_ok,        \* deploy() returned normally
    body_raised,      \* the body of the with statement raised
    cleanup_calls,    \* number of Mesh.cleanup() calls started
    cleanup_raised,   \* the current Mesh.cleanup() call left by an exception
    reports,          \* warnings/errors logged by the current cleanup call: <<index, level>>, index 0 = network
    attempted,        \* node indices whose teardown the current cleanup call attempted
    net_attempted,    \* the current cleanup call attempted network.remove()
    snap,             \* the runtime state when the current cleanup call started
    calls,            \* history: <<node index, "stop" or "remove", outcome>> of the current cleanup call
    \* ---- get_resource_metrics (SpecMetrics)
    m_pc,             \* "idle", "call" (about to parse m_resp), "returned"
    m_resp,           \* the response of the telemetry endpoint
    m_ret,            \* what get_resource_metrics returned
    \* ---- the polling loop (SpecPoll)
    t_pc,             \* "idle", "poll" (inside the while loop), "raised", "done"
    tick,             \* number of completed turns of the while loop
    tk,               \* `for node in mesh.nodes`: index of the node polled next
    last_poll_cpu,    \* main's last_poll_cpu: node_name -> <<counter, elapsed_time>>
    all_metrics_data, \* main's all_metrics_data
    counter,          \* environment: the CPU counter last served on each metrics port
    own_prev,         \* history: per node index, <<counter, elapsed_time>> of its last recorded sample
    last_poll,        \* history: the last poll made: [node, ok]
    polled,           \* history: node indices polled in the current turn
    \* ---- analyze_logs (SpecLogs)
    a_pc,             \* "idle", "call", "returned"
    a_logs,           \* per container, the lines of its log
    a_ret,            \* what analyze_logs returned or raised
    \* ---- get_peer_id on the text of a log (SpecResolve)
    g_pc,             \* "idle", "loop" (at the while test), "returned", "raised"
    g_elapsed,        \* time.time() - start_time, in half seconds
    g_log,            \* the container's log so far: a sequence of lines
    g_ret             \* what get_peer_id returned

vars == <<pc, usage, num_peers, network, nodes, api_ports, metrics_ports,
          bootstrap_peer_id, i, elapsed, bootlog, rt_nets, rt_ctrs, next_id,
          exc, caught, cj, launched, deploy_ok, body_raised, cleanup_calls,
          cleanup_raised, reports, attempted, net_attempted, snap, calls,
          m_pc, m_resp, m_ret,
          t_pc, tick, tk, last_poll_cpu, all_metrics_data, counter, own_prev,
          last_poll, polled,
          a_pc, a_logs, a_ret,
          g_pc, g_elapsed, g_log, g_ret>>

mesh_vars == <<network, nodes>>
deploy_locals == <<api_ports, metrics_ports, bootstrap_peer_id, i, elapsed, bootlog>>
runtime_vars == <<rt_nets, rt_ctrs, next_id, launched>>
cleanup_hist == <<cleanup_calls, cleanup_raised, reports, attempted, net_attempted, snap,
                  calls, cj>>
lifecycle_vars == <<pc, usage, num_peers, mesh_vars, deploy_locals, runtime_vars, exc,
                    caught, deploy_ok, body_raised, cleanup_hist>>
metrics_vars == <<m_pc, m_resp, m_ret>>
poll_vars == <<t_pc, tick, tk, last_poll_cpu, all_metrics_data, counter, own_prev,
               last_poll, polled>>
logs_vars == <<a_pc, a_logs, a_ret>>
\* What the lifecycle's steps leave alone.
resolve_vars == <<g_pc, g_elapsed, g_log, g_ret>>
other_vars == <<metrics_vars, poll_vars, logs_vars, resolve_vars>>

\* The empty mapping (an empty dict).
EmptyMap == <<>>

MetricsIdle == m_pc = "idle" /\ m_resp = <<>> /\ m_ret = <<>>

PollIdle ==
    /\ t_pc = "idle"
    /\ tick = 0
    /\ tk = 0
    /\ last_poll_cpu = EmptyMap
    /\ all_metrics_data = <<>>
    /\ counter = EmptyMap
    /\ own_prev = EmptyMap
    /\ last_poll = <<>>
    /\ polled = {}

LogsIdle == a_pc = "idle" /\ a_logs = <<>> /\ a_ret = <<>>

ResolveIdle == g_pc = "idle" /\ g_elapsed = 0 /\ g_log = <<>> /\ g_ret = <<>>

Max(a, b) == IF a >= b THEN a ELSE b

SeqMax(s) == LET RECURSIVE M(_)
                 M(k) == IF k = 0 THEN 0 ELSE Max(s[k], M(k - 1))
             IN M(Len(s))

\* ------------------------------------------------------------ runtime
\* A container left by a crashed prior run under the bootstrap's reserved name.
StaleBootstrap(status, net) ==
    [id |-> 1, name |-> BOOTSTRAP_NAME, status |-> status,
     ports |-> {}, bp |-> None, net |-> net]

\* Host ports held by running containers.
BusyPorts(ctrs) == UNION {c.ports : c \in {d \in ctrs : d.status = "running"}}

\* A network with a running container attached cannot be removed.
NetworkInUse(ctrs, n) == \E c \in ctrs : c.net = n /\ c.status = "running"

\* The identity a container announces on its log: unique per container.
PeerIdOf(container) == container.id

IsBootstrap(node) == node.container.name = BOOTSTRAP_NAME

\* ------------------------------------------------------------ Init
Init ==
    /\ pc = "create_network"
    /\ usage \in {"with", "direct"}
    /\ num_peers \in 0..MaxPeers
    /\ network = None
    /\ nodes = <<>>
    /\ api_ports = <<>>
    /\ metrics_ports = <<>>
    /\ bootstrap_peer_id = None
    /\ i = 0
    /\ elapsed = 0
    /\ bootlog = "empty"
    /\ \E stale \in {<<{}, {}>>,
                     <<{1}, {}>>,
                     <<{1}, {StaleBootstrap("running", 1)}>>,
                     <<{1}, {StaleBootstrap("exited", 1)}>>,
                     <<{}, {StaleBootstrap("exited", 1)}>>} :
          /\ rt_nets = stale[1]
          /\ rt_ctrs = stale[2]
    /\ next_id = 2
    /\ exc = "none"
    /\ caught = "none"
    /\ cj = 0
    /\ launched = {}
    /\ deploy_ok = FALSE
    /\ body_raised = FALSE
    /\ cleanup_calls = 0
    /\ cleanup_raised = FALSE
    /\ reports = {}
    /\ attempted = {}
    /\ net_attempted = FALSE
    /\ snap = <<>>
    /\ calls = {}
    /\ MetricsIdle
    /\ PollIdle
    /\ LogsIdle
    /\ ResolveIdle

\* ------------------------------------------------------------ helpers
\* Mesh.cleanup() is entered: `for node in self.nodes` starts at the first node.
StartCleanup ==
    /\ pc' = "cleanup"
    /\ cj' = 1
    /\ cleanup_calls' = cleanup_calls + 1
    /\ cleanup_raised' = FALSE
    /\ reports' = {}
    /\ attempted' = {}
    /\ net_attempted' = FALSE
    /\ snap' = <<rt_nets, rt_ctrs>>
    /\ calls' = {}

\* A step of deploy() raises e: deploy() is left at once.
DeployRaises(e) ==
    /\ pc' = "deploy_raised"
    /\ exc' = e

\* The APIError the runtime raises when a network that still has a running
\* container attached is removed.
ActiveEndpoints == "APIError: network has active endpoints"

\* ------------------------------------------------------------ utils.py
\* create_network: evict a network of the same name, then create a fresh one.
\* Only NotFound is caught around get()/remove().
CreateNetwork ==
    /\ pc = "create_network"
    /\ \/ \* networks.get / remove / create fails with an API error
          /\ DeployRaises("APIError")
          /\ UNCHANGED <<rt_nets, next_id, network>>
       \/ \* the existing network still has a running container attached:
          \* existing_network.remove() is refused (an APIError as well, told
          \* apart here by its message)
          /\ \E n \in rt_nets : NetworkInUse(rt_ctrs, n)
          /\ DeployRaises(ActiveEndpoints)
          /\ UNCHANGED <<rt_nets, next_id, network>>
       \/ \* eviction done (or nothing to evict); create fails
          /\ \A n \in rt_nets : ~NetworkInUse(rt_ctrs, n)
          /\ rt_nets # {}
          /\ rt_nets' = {}
          /\ DeployRaises("APIError")
          /\ UNCHANGED <<next_id, network>>
       \/ /\ \A n \in rt_nets : ~NetworkInUse(rt_ctrs, n)
          /\ rt_nets' = {next_id}
          /\ next_id' = next_id + 1
          /\ network' = next_id
          /\ pc' = "build_image"
          /\ UNCHANGED exc
    /\ UNCHANGED <<other_vars, usage, num_peers, nodes, deploy_locals, rt_ctrs, launched,
                   caught, deploy_ok, body_raised, cleanup_hist>>

\* build_image: pass-through to the build service; a build failure propagates.
BuildImage ==
    /\ pc = "build_image"
    /\ \/ DeployRaises("BuildError")
       \/ /\ pc' = "api_ports"
          /\ UNCHANGED exc
    /\ UNCHANGED <<other_vars, usage, num_peers, mesh_vars, deploy_locals, runtime_vars,
                   caught, deploy_ok, body_raised, cleanup_hist>>

\* The port lists count probes can yield: each socket is bound to port 0 and
\* closed before the next probe, so the OS may hand out any port again.
\* hi is the largest port seen so far in this run.
RECURSIVE Probes(_, _)
Probes(count, hi) ==
    IF count = 0 THEN {<<>>}
    ELSE UNION {{<<p>> \o s : s \in Probes(count - 1, Max(hi, p))} : p \in 1..(hi + 1)}

\* get_free_ports(count): the lists it can return. The final length check
\* compares the number of probes made with count.
get_free_ports(count, hi) == {ports \in Probes(count, hi) : Len(ports) = count}

AllocApiPorts ==
    /\ pc = "api_ports"
    /\ \/ /\ DeployRaises("OSError")
          /\ UNCHANGED api_ports
       \/ /\ \E ports \in get_free_ports(num_peers + 1, 0) : api_ports' = ports
          /\ pc' = "metrics_ports"
          /\ UNCHANGED exc
    /\ UNCHANGED <<other_vars, usage, num_peers, mesh_vars, metrics_ports, bootstrap_peer_id, i,
                   elapsed, bootlog, runtime_vars, caught, deploy_ok, body_raised,
                   cleanup_hist>>

AllocMetricsPorts ==
    /\ pc = "metrics_ports"
    /\ \/ /\ DeployRaises("OSError")
          /\ UNCHANGED metrics_ports
       \/ /\ \E ports \in get_free_ports(num_peers + 1, SeqMax(api_ports)) :
                metrics_ports' = ports
          /\ pc' = "deploy_bootstrap"
          /\ UNCHANGED exc
    /\ UNCHANGED <<other_vars, usage, num_peers, mesh_vars, api_ports, bootstrap_peer_id, i,
                   elapsed, bootlog, runtime_vars, caught, deploy_ok, body_raised,
                   cleanup_hist>>

\* ------------------------------------------------------------ mesh.py: deploy
NodeInfo(container, api_port, metrics_port) ==
    [container |-> container, api_port |-> api_port, metrics_port |-> metrics_port]

\* Mutant: the record is inserted at the front (self.nodes.insert(0, ...)).
TrackNode_Prepend(ns, node) == <<node>> \o ns

\* self.nodes.append(NodeInfo(...))
TrackNode(ns, node) == Append(ns, node)

\* deploy_peer's choice of role: `if not bootstrap_peer_id`.
ContainerName(api_port, peer_id) ==
    IF peer_id = None THEN BOOTSTRAP_NAME ELSE PeerName(api_port)

\* deploy_peer(metrics_port, api_port, bootstrap_peer_id) followed by the
\* append of its NodeInfo. The container of the same name is removed by
\* force; containers.run creates the container and starts it, and raises
\* when either fails (a start fails when a host port is already published
\* by a running container). pcOk is where deploy() continues.
deploy_peer(api_port, metrics_port, peer_id, pcOk) ==
    LET name == ContainerName(api_port, peer_id)
        kept == {c \in rt_ctrs : c.name # name}
        new(status) == [id |-> next_id, name |-> name, status |-> status,
                        ports |-> {api_port, metrics_port}, bp |-> peer_id,
                        net |-> network]
        handle == [id |-> next_id, name |-> name]
    IN \/ \* containers.get or existing_container.remove(force=True) fails
          /\ DeployRaises("APIError")
          /\ UNCHANGED <<rt_ctrs, next_id, launched, nodes>>
       \/ \* run fails before the container exists
          /\ rt_ctrs' = kept
          /\ DeployRaises("APIError")
          /\ UNCHANGED <<next_id, launched, nodes>>
       \/ \* run creates the container and fails to start it
          /\ rt_ctrs' = kept \cup {new("created")}
          /\ next_id' = next_id + 1
          /\ launched' = launched \cup {next_id}
          /\ DeployRaises("APIError")
          /\ UNCHANGED nodes
       \/ \* run succeeds
          /\ {api_port, metrics_port} \cap BusyPorts(kept) = {}
          /\ rt_ctrs' = kept \cup {new("running")}
          /\ next_id' = next_id + 1
          /\ launched' = launched \cup {next_id}
          /\ nodes' = TrackNode(nodes, NodeInfo(handle, api_port, metrics_port))
          /\ pc' = pcOk
          /\ UNCHANGED exc

\* Step 3 of deploy: the bootstrap, from api_ports[0] and metrics_ports[0].
DeployBootstrap ==
    /\ pc = "deploy_bootstrap"
    /\ deploy_peer(api_ports[1], metrics_ports[1], None, "get_peer_id")
    /\ UNCHANGED <<other_vars, usage, num_peers, network, deploy_locals, rt_nets,
                   caught, deploy_ok, body_raised, cleanup_hist>>

\* Mutant: deploy goes on without checking get_peer_id's result.
PeerIdMissing_Unchecked(peer_id) == FALSE

\* `if not bootstrap_peer_id: raise RuntimeError`
PeerIdMissing(peer_id) == peer_id = None

\* deploy's use of get_peer_id's result.
GotPeerId(peer_id) ==
    IF PeerIdMissing(peer_id)
    THEN /\ DeployRaises("RuntimeError")
         /\ UNCHANGED bootstrap_peer_id
    ELSE /\ bootstrap_peer_id' = peer_id
         /\ pc' = "deploy_peers"
         /\ UNCHANGED exc

\* get_peer_id(bootstrap_container): one turn of its polling loop, or its
\* return of None once the timeout has passed. The log only grows: its first
\* line, once written, stays. bootstrap_container is the node appended last.
\* elapsed is get_peer_id's own clock: it is gone (0) once get_peer_id is left.
GetPeerId ==
    /\ pc = "get_peer_id"
    /\ IF elapsed < TimeoutTicks
       THEN \/ \* container.logs() fails
               /\ DeployRaises("APIError")
               /\ elapsed' = 0
               /\ UNCHANGED <<bootstrap_peer_id, bootlog>>
            \/ \E log \in (IF bootlog = "empty" THEN {"empty", "id", "other"} ELSE {bootlog}) :
                 /\ bootlog' = log
                 /\ IF log = "id"
                    THEN /\ GotPeerId(PeerIdOf(nodes[Len(nodes)].container))
                         /\ elapsed' = 0
                    ELSE /\ elapsed' = elapsed + SleepTicks
                         /\ UNCHANGED <<pc, exc, bootstrap_peer_id>>
       ELSE /\ GotPeerId(None)
            /\ elapsed' = 0
            /\ UNCHANGED bootlog
    /\ UNCHANGED <<other_vars, usage, num_peers, mesh_vars, api_ports, metrics_ports, i,
                   runtime_vars, caught, deploy_ok, body_raised, cleanup_hist>>

\* Step 4 of deploy: one turn of `for i in range(self.num_peers)`.
DeployPeer ==
    /\ pc = "deploy_peers"
    /\ i < num_peers
    /\ deploy_peer(api_ports[i + 2], metrics_ports[i + 2], bootstrap_peer_id, "deploy_peers")
    /\ i' = IF pc' = "deploy_peers" THEN i + 1 ELSE i
    /\ UNCHANGED <<other_vars, usage, num_peers, network, api_ports, metrics_ports,
                   bootstrap_peer_id, elapsed, bootlog, rt_nets,
                   caught, deploy_ok, body_raised, cleanup_hist>>

\* deploy() is left: its locals are gone. (The bootstrap's log is the
\* container's, not deploy's: it stays.)
FrameGone ==
    /\ api_ports' = <<>>
    /\ metrics_ports' = <<>>
    /\ bootstrap_peer_id' = None
    /\ i' = 0
    /\ UNCHANGED <<elapsed, bootlog>>

\* deploy() returns: with `with`, __enter__ returns self and the body runs;
\* a direct caller calls cleanup() next.
DeployReturns ==
    /\ pc = "deploy_peers"
    /\ i = num_peers
    /\ deploy_ok' = TRUE
    /\ IF usage = "with"
       THEN /\ pc' = "body"
            /\ UNCHANGED cleanup_hist
       ELSE StartCleanup
    /\ FrameGone
    /\ UNCHANGED <<other_vars, usage, num_peers, mesh_vars, runtime_vars,
                   exc, caught, body_raised>>

\* ------------------------------------------------------------ scoped use
\* Whether __exit__ runs when __enter__ raised: the with statement calls
\* __exit__ only once __enter__ has returned, and __enter__ is deploy().
EnterFailureRunsExit == FALSE

\* deploy() raised.  In main() the exception leaves the with statement and
\* reaches `except Exception`; a direct caller calls cleanup() next.
DeployRaised ==
    /\ pc = "deploy_raised"
    /\ IF usage = "with" /\ ~EnterFailureRunsExit
       THEN /\ pc' = "handler"
            /\ caught' = exc
            /\ UNCHANGED cleanup_hist
       ELSE /\ StartCleanup
            /\ UNCHANGED caught
    /\ FrameGone
    /\ UNCHANGED <<other_vars, usage, num_peers, mesh_vars, runtime_vars,
                   exc, deploy_ok, body_raised>>

\* The body of main()'s with statement: it ends, or it raises; either way
\* the with statement calls __exit__, which calls cleanup().
Body ==
    /\ pc = "body"
    /\ \/ UNCHANGED <<exc, body_raised>>
       \/ /\ exc' = "BodyError"
          /\ body_raised' = TRUE
    /\ StartCleanup
    /\ UNCHANGED <<other_vars, usage, num_peers, mesh_vars, deploy_locals, runtime_vars,
                   caught, deploy_ok>>

\* ------------------------------------------------------------ mesh.py: cleanup
\* Mutant: NodeInfo.cleanup catches errors.NotFound only.
NodeCleanupCatches_NotFoundOnly(kind) == kind = "NotFound"

\* NodeInfo.cleanup's except clauses: errors.NotFound, then Exception.
NodeCleanupCatches(kind) == kind \in {"NotFound", "APIError"}

\* The level NodeInfo.cleanup / Mesh.cleanup logs a failure at.
ReportLevel(kind) == IF kind = "NotFound" THEN "warning" ELSE "error"

\* Mutant: remove() is called whatever stop() did.
RemoveAfterStop_Always(stopped) == TRUE

\* `self.container.stop()` and `self.container.remove()` are two statements
\* of one try block: remove() is reached only when stop() returned.
RemoveAfterStop(stopped) == stopped = "none"

\* The outcomes of container.stop(); container.remove() on a tracked node:
\* <<runtime containers afterwards, the exception raised or "none", the calls
\* made with their outcomes>>.
StopAndRemove(node) ==
    LET here == {c \in rt_ctrs : c.id = node.container.id}
        stopped == {[c EXCEPT !.status = "exited"] : c \in here}
        \* stop(): fails, or finds the container gone, or stops it
        Stops == {<<rt_ctrs, "APIError">>}
                 \cup (IF here = {} THEN {<<rt_ctrs, "NotFound">>}
                       ELSE {<<(rt_ctrs \ here) \cup stopped, "none">>})
        \* remove() on the runtime stop() left
        Removes(ctrs) ==
            LET left == {c \in ctrs : c.id = node.container.id}
            IN  IF left = {} THEN {<<ctrs, "NotFound">>}
                ELSE {<<ctrs, "APIError">>, <<ctrs \ left, "none">>}
    IN  UNION {IF RemoveAfterStop(st[2])
               THEN {<<rm[1], IF st[2] # "none" THEN st[2] ELSE rm[2],
                       {<<"stop", st[2]>>, <<"remove", rm[2]>>}>> : rm \in Removes(st[1])}
               ELSE {<<st[1], st[2], {<<"stop", st[2]>>}>>}
               : st \in Stops}

\* One turn of `for node in self.nodes: node.cleanup()`.  traced tells
\* whether the calls made are written to the history variable calls.
NodeCleanupStep(traced) ==
    /\ pc = "cleanup"
    /\ cj <= Len(nodes)
    /\ attempted' = attempted \cup {cj}
    /\ \E out \in StopAndRemove(nodes[cj]) :
          /\ rt_ctrs' = out[1]
          /\ calls' = IF traced THEN calls \cup {<<cj, c[1], c[2]>> : c \in out[3]}
                       ELSE calls
          /\ IF out[2] = "none"
             THEN /\ cj' = cj + 1
                  /\ UNCHANGED <<pc, exc, reports, cleanup_raised>>
             ELSE IF NodeCleanupCatches(out[2])
             THEN /\ reports' = reports \cup {<<cj, ReportLevel(out[2])>>}
                  /\ cj' = cj + 1
                  /\ UNCHANGED <<pc, exc, cleanup_raised>>
             ELSE /\ exc' = out[2]
                  /\ cleanup_raised' = TRUE
                  /\ pc' = "cleanup_ret"
                  /\ UNCHANGED <<cj, reports>>
    /\ UNCHANGED <<other_vars, usage, num_peers, mesh_vars, deploy_locals, rt_nets, next_id,
                   launched, caught, deploy_ok, body_raised, cleanup_calls,
                   net_attempted, snap>>

NodeCleanup == NodeCleanupStep(FALSE)

NodeCleanupTraced == NodeCleanupStep(TRUE)

\* Mesh.cleanup's except clauses around network.remove().
NetworkCleanupCatches(kind) == kind \in {"NotFound", "APIError"}

\* The outcomes of self.network.remove().
RemoveNetwork ==
    {<<rt_nets, "APIError">>}
    \cup (IF network \notin rt_nets THEN {<<rt_nets, "NotFound">>}
          ELSE IF NetworkInUse(rt_ctrs, network) THEN {}
          ELSE {<<rt_nets \ {network}, "none">>})

\* After the loop: `if self.network:` remove it; cleanup() returns.
NetworkCleanup ==
    /\ pc = "cleanup"
    /\ cj > Len(nodes)
    /\ IF network # None
       THEN /\ net_attempted' = TRUE
            /\ \E out \in RemoveNetwork :
                 /\ rt_nets' = out[1]
                 /\ IF out[2] = "none"
                    THEN UNCHANGED <<exc, reports, cleanup_raised>>
                    ELSE IF NetworkCleanupCatches(out[2])
                    THEN /\ reports' = reports \cup {<<0, ReportLevel(out[2])>>}
                         /\ UNCHANGED <<exc, cleanup_raised>>
                    ELSE /\ exc' = out[2]
                         /\ cleanup_raised' = TRUE
                         /\ UNCHANGED reports
       ELSE UNCHANGED <<net_attempted, rt_nets, exc, reports, cleanup_raised>>
    /\ pc' = "cleanup_ret"
    /\ UNCHANGED <<other_vars, usage, num_peers, mesh_vars, deploy_locals, rt_ctrs, next_id,
                   launched, caught, deploy_ok, body_raised, cleanup_calls,
                   attempted, snap, calls, cj>>

\* Mutant: __exit__ returns True.
ExitSuppresses_True == TRUE

\* __exit__ ends with cleanup()'s return and returns None: an exception in
\* flight is not suppressed.
ExitSuppresses == FALSE

\* cleanup() has returned (or raised).  In main(): __exit__ is over, the
\* exception in flight, if any, reaches `except Exception`.  A direct caller
\* may call cleanup() again.
CleanupReturns ==
    /\ pc = "cleanup_ret"
    /\ IF usage = "with"
       THEN /\ IF exc # "none" /\ (cleanup_raised \/ ~ExitSuppresses)
               THEN /\ pc' = "handler"
                    /\ caught' = exc
               ELSE /\ pc' = "done"
                    /\ UNCHANGED caught
            /\ UNCHANGED cleanup_hist
       ELSE \/ /\ ~cleanup_raised
               /\ cleanup_calls < MaxCleanupCalls
               /\ StartCleanup
               /\ UNCHANGED caught
            \/ /\ pc' = "done"
               /\ UNCHANGED <<caught, cleanup_hist>>
    /\ UNCHANGED <<other_vars, usage, num_peers, mesh_vars, deploy_locals, runtime_vars,
                   exc, deploy_ok, body_raised>>

Next ==
    \/ CreateNetwork
    \/ BuildImage
    \/ AllocApiPorts
    \/ AllocMetricsPorts
    \/ DeployBootstrap
    \/ GetPeerId
    \/ DeployPeer
    \/ DeployReturns
    \/ DeployRaised
    \/ Body
    \/ NodeCleanup
    \/ NetworkCleanup
    \/ CleanupReturns

Spec == Init /\ [][Next]_vars

\* ------------------------------------------------------------ accessors
\* Mesh.bootstrap_node
bootstrap_node == IF nodes # <<>> THEN nodes[1] ELSE None

\* Mesh.peer_nodes
peer_nodes == IF Len(nodes) > 1 THEN SubSeq(nodes, 2, Len(nodes)) ELSE <<>>

\* ------------------------------------------------------------ properties
\* Containers of this deploy that are in the runtime.
LaunchedHere == {c \in rt_ctrs : c.id \in launched}

\* C1: when deploy() fails under `with Mesh(...)` after creating a resource,
\* cleanup() has run and every network and container created by this deploy
\* is gone from the runtime when the error is in main()'s handler.
C1_FailedDeployIsCleanedUp ==
    (usage = "with" /\ pc = "handler" /\ ~deploy_ok /\ (network # None \/ launched # {}))
        => /\ cleanup_calls >= 1
           /\ network \notin rt_nets
           /\ LaunchedHere = {}

\* C2: when the body of the with statement raises, cleanup() runs exactly
\* once, the run ends in main()'s handler, and the handler receives the
\* body's own error, whatever the teardown calls did.
C2_BodyErrorReachesHandler ==
    /\ body_raised => cleanup_calls = 1
    /\ (body_raised /\ pc \in {"handler", "done"})
          => (pc = "handler" /\ caught = "BodyError")
    /\ pc # "handler" => caught = "none"

\* C2 witness: the handler holds the body's error after a cleanup in which a
\* teardown call failed.
C2_Witness ==
    /\ pc = "handler"
    /\ body_raised
    /\ caught = "BodyError"
    /\ \E r \in reports : r[2] = "error"

\* C3: deploy() followed immediately by cleanup() leaves no tracked instance
\* and no network handle.
C3_CleanupForgetsEverything ==
    (usage = "direct" /\ pc = "cleanup_ret" /\ cleanup_calls = 1)
        => (nodes = <<>> /\ network = None)

\* C4: a second cleanup() right after the first logs no new warning or
\* error, raises nothing and leaves the runtime as the first call left it.
\* Stated for the case in which the first call removed everything this
\* deploy created, and for the reports the code itself decides (the
\* "already removed" warnings): a violation here is a violation of the claim.
C4_SecondCleanupIsSilent ==
    (/\ pc = "cleanup_ret"
     /\ cleanup_calls = 2
     /\ network \notin snap[1]
     /\ \A c \in snap[2] : c.id \notin launched)
        => /\ \A r \in reports : r[2] # "warning"
           /\ ~cleanup_raised
           /\ <<rt_nets, rt_ctrs>> = snap

\* C5: cleanup() never raises, and when it returns it has attempted the
\* teardown of every tracked instance and then of the network, whatever
\* stop/remove calls failed on the way.
C5_CleanupVisitsEverything ==
    /\ ~cleanup_raised
    /\ pc = "cleanup" => attempted = 1..(cj - 1)
    /\ pc = "cleanup_ret"
          => /\ attempted = 1..Len(nodes)
             /\ network # None => net_attempted

\* C5 witness: the first of several tracked instances failed to stop, and
\* the later ones and the network were still visited.
C5_Witness ==
    /\ pc = "cleanup_ret"
    /\ Len(nodes) >= 2
    /\ <<1, "error">> \in reports
    /\ attempted = 1..Len(nodes)
    /\ net_attempted

\* The host ports of the tracked instances, one entry per instance and kind.
MeshPorts ==
    {<<k, "api", nodes[k].api_port>> : k \in 1..Len(nodes)}
    \cup {<<k, "metrics", nodes[k].metrics_port>> : k \in 1..Len(nodes)}

\* C6: nodes is only ever appended to, nodes[0] is the bootstrap whenever
\* nodes is non-empty, no later entry is a bootstrap, and after a successful
\* deploy nodes has num_peers + 1 entries (bootstrap_node = nodes[0],
\* peer_nodes = nodes[1:] holds the num_peers peers).
C6_BootstrapFirst ==
    /\ [](/\ nodes # <<>> => IsBootstrap(nodes[1])
          /\ \A k \in 2..Len(nodes) : ~IsBootstrap(nodes[k])
          /\ nodes # <<>> => bootstrap_node = nodes[1]
          /\ \A k \in 1..Len(peer_nodes) : ~IsBootstrap(peer_nodes[k])
          /\ deploy_ok => (Len(nodes) = num_peers + 1 /\ Len(peer_nodes) = num_peers))
    /\ [][\/ nodes' = nodes
          \/ /\ Len(nodes') = Len(nodes) + 1
             /\ SubSeq(nodes', 1, Len(nodes)) = nodes]_vars

\* C6 witness: a deployed mesh with two peers behind the bootstrap.
C6_Witness ==
    /\ deploy_ok
    /\ num_peers = 2
    /\ Len(nodes) = 3
    /\ IsBootstrap(nodes[1])
    /\ ~IsBootstrap(nodes[2])
    /\ ~IsBootstrap(nodes[3])

\* C7: a peer is launched only after the bootstrap of this deploy has been
\* launched and its identity has been read from its log, and every peer is
\* launched with that identity.
C7_BootstrapBeforePeers ==
    /\ [](\A c \in LaunchedHere :
             c.name # BOOTSTRAP_NAME
                => /\ nodes # <<>>
                   /\ nodes[1].container.id \in launched
                   /\ c.bp = PeerIdOf(nodes[1].container))
    /\ [][(pc = "deploy_peers" /\ launched' # launched)
             => /\ nodes # <<>>
                /\ IsBootstrap(nodes[1])
                /\ nodes[1].container.id \in launched
                /\ bootlog = "id"
                /\ bootstrap_peer_id = PeerIdOf(nodes[1].container)
                /\ \A c \in rt_ctrs' :
                      c.id \in launched' \ launched
                         => (c.name # BOOTSTRAP_NAME /\ c.bp = bootstrap_peer_id)]_vars

\* C7 witness: two peers run, both started with the bootstrap's identity.
C7_Witness ==
    /\ Len(nodes) = 3
    /\ \A k \in 2..3 : \E c \in rt_ctrs :
          /\ c.id = nodes[k].container.id
          /\ c.status = "running"
          /\ c.bp = PeerIdOf(nodes[1].container)

\* C8: when the bootstrap's log has not shown the identity by the timeout,
\* deploy raises, no peer has been launched and the bootstrap is the only
\* tracked instance; deploy never reaches the peer launches without it.
C8_ResolutionTimeout ==
    /\ [](/\ (pc = "deploy_raised" /\ exc = "RuntimeError")
                => /\ bootlog # "id"
                   /\ Len(nodes) = 1
                   /\ IsBootstrap(nodes[1])
                   /\ launched = {nodes[1].container.id}
          /\ pc = "deploy_peers" => bootlog = "id")
    /\ [][(pc = "get_peer_id" /\ elapsed >= TimeoutTicks)
             => (pc' = "deploy_raised" /\ exc' = "RuntimeError")]_vars

\* C8 witness: the resolver timed out in a deploy that was to launch peers.
C8_Witness ==
    /\ pc = "deploy_raised"
    /\ exc = "RuntimeError"
    /\ num_peers = 2
    /\ bootlog = "other"
    /\ Len(nodes) = 1

\* C9: get_free_ports(k) returns k pairwise-distinct ports (or raises).
C9_PortsDistinct ==
    pc = "metrics_ports"
        => /\ Len(api_ports) = num_peers + 1
           /\ \A a, b \in 1..Len(api_ports) : a # b => api_ports[a] # api_ports[b]

\* C10: in a deployed mesh the 2 * (num_peers + 1) host ports are pairwise
\* distinct.
C10_MeshPortsDistinct ==
    deploy_ok => Cardinality({e[3] : e \in MeshPorts}) = 2 * (num_peers + 1)

\* Container ids the Mesh references through nodes.
TrackedIds == {nodes[k].container.id : k \in 1..Len(nodes)}

\* C11: whenever a step of deploy() fails, every network and container this
\* deploy has created in the runtime is referenced by self.network or
\* self.nodes.
C11_CreatedIsTracked ==
    pc = "deploy_raised"
        => /\ \A c \in LaunchedHere : c.id \in TrackedIds
           /\ \A n \in rt_nets \ {1} : n = network

\* C17: create_network does not fail on a network left by a prior run, with
\* or without that run's containers attached: it removes it first.
C17_StaleNetworkEvicted ==
    ~(pc = "deploy_raised" /\ network = None /\ exc = ActiveEndpoints /\ rt_nets # {})

\* C20: right after a successful deploy every tracked instance's container
\* is in the runtime and the tracked instances have pairwise-distinct
\* container names.
C20_TrackedContainersExist ==
    (deploy_ok /\ cleanup_calls = 0)
        => /\ \A k \in 1..Len(nodes) : \E c \in rt_ctrs : c.id = nodes[k].container.id
           /\ \A a, b \in 1..Len(nodes) :
                 a # b => nodes[a].container.name # nodes[b].container.name


\* ======================================================================
\* get_resource_metrics (src/experiments/simple.py)
\* ======================================================================

\* A metric name is the sequence of its "_"-separated words, so that
\* str.startswith is the prefix relation on sequences.
process_cpu_seconds_total == <<"process", "cpu", "seconds", "total">>
go_memstats_alloc_bytes == <<"go", "memstats", "alloc", "bytes">>
go_goroutines == <<"go", "goroutines">>
go_memstats_alloc_bytes_total == <<"go", "memstats", "alloc", "bytes", "total">>
go_threads == <<"go", "threads">>

metric_names == <<process_cpu_seconds_total, go_memstats_alloc_bytes, go_goroutines>>

\* One line of the response.  kind: "comment" (starts with "#"), "blank",
\* "data".  A data line is `name value` or `name{labels} value`; numeric
\* tells whether float() accepts its last whitespace-separated token (a
\* line whose value is missing ends with its own name, which float()
\* rejects).
Line(kind, name, labels, numeric, v) ==
    [kind |-> kind, name |-> name, labels |-> labels, numeric |-> numeric, v |-> v]

Comment == Line("comment", <<>>, FALSE, FALSE, 0)
Blank == Line("blank", <<>>, FALSE, FALSE, 0)
Data(name, v) == Line("data", name, FALSE, TRUE, v)
Labelled(name, v) == Line("data", name, TRUE, TRUE, v)
NoValue(name) == Line("data", name, FALSE, FALSE, 0)

startswith(name, prefix) ==
    Len(prefix) <= Len(name) /\ SubSeq(name, 1, Len(prefix)) = prefix

\* `if line.startswith("#") or not line.strip(): continue`
SkipsLine(line) == line.kind \in {"comment", "blank"}

\* `for metric_name in metric_names: if line.startswith(metric_name)`: the
\* index of the first whitelisted name the line starts with, 0 for none.
FirstMatch(line) ==
    LET hits == {m \in 1..Len(metric_names) : startswith(line.name, metric_names[m])}
    IN  IF hits = {} THEN 0 ELSE CHOOSE m \in hits : \A o \in hits : m <= o

\* results[key] = value
Put(results, key, value) ==
    [x \in DOMAIN results \cup {key} |-> IF x = key THEN value ELSE results[x]]

\* The `for line in lines` loop from line j on.  float() raising ValueError
\* leaves the loop: the handler is outside it.
RECURSIVE ParseLines(_, _, _)
ParseLines(lines, j, results) ==
    IF j > Len(lines) THEN [kind |-> "parsed", results |-> results]
    ELSE LET line == lines[j]
             m == FirstMatch(line)
         IN  IF SkipsLine(line) \/ m = 0 THEN ParseLines(lines, j + 1, results)
             ELSE IF ~line.numeric THEN [kind |-> "ValueError", results |-> results]
             ELSE ParseLines(lines, j + 1, Put(results, metric_names[m], line.v))

\* The two things get_resource_metrics returns: None, or the dict.
NoMetrics == [kind |-> "None", results |-> EmptyMap]
Metrics(results) == [kind |-> "dict", results |-> results]

\* response.status: "unreachable" (requests.get raises), "http_error"
\* (raise_for_status raises), "ok".
get_resource_metrics(response) ==
    IF response.status # "ok" THEN NoMetrics
    ELSE LET p == ParseLines(response.lines, 1, EmptyMap)
         IN  IF p.kind = "ValueError" THEN NoMetrics
             ELSE IF Cardinality(DOMAIN p.results) = Len(metric_names)
                  THEN Metrics(p.results)
                  ELSE NoMetrics

\* Mutant: the test never skips.
Falsy_Never(metrics) == FALSE

\* `if not metrics`
Falsy(metrics) == metrics.kind = "None" \/ DOMAIN metrics.results = {}

MaxRespLines == 4

LineUniverse ==
    {Comment, Blank,
     Data(process_cpu_seconds_total, 10), NoValue(process_cpu_seconds_total),
     Data(go_memstats_alloc_bytes, 7), NoValue(go_memstats_alloc_bytes),
     Data(go_memstats_alloc_bytes_total, 42),
     Data(go_goroutines, 42), Labelled(go_goroutines, 7), NoValue(go_goroutines),
     Data(go_threads, 7)}

RECURSIVE SeqsUpTo(_, _)
SeqsUpTo(S, n) ==
    IF n = 0 THEN {<<>>}
    ELSE LET shorter == SeqsUpTo(S, n - 1)
         IN  shorter \cup {Append(q, x) : q \in {r \in shorter : Len(r) = n - 1}, x \in S}

Response(status, lines) == [status |-> status, lines |-> lines]

Responses ==
    {Response("unreachable", <<>>), Response("http_error", <<>>)}
        \cup {Response("ok", ls) : ls \in SeqsUpTo(LineUniverse, MaxRespLines)}

\* The lifecycle's variables while another specification runs: the program is
\* at `at` and the mesh tracks the nodes ns.
LifecyclePinned(at, ns) ==
    /\ pc = at
    /\ usage = "direct"
    /\ num_peers = 0
    /\ network = None
    /\ nodes = ns
    /\ api_ports = <<>>
    /\ metrics_ports = <<>>
    /\ bootstrap_peer_id = None
    /\ i = 0
    /\ elapsed = 0
    /\ bootlog = <<>>
    /\ rt_nets = {}
    /\ rt_ctrs = {}
    /\ next_id = 2
    /\ exc = None
    /\ caught = FALSE
    /\ cj = 0
    /\ launched = {}
    /\ deploy_ok = FALSE
    /\ body_raised = FALSE
    /\ cleanup_calls = 0
    /\ cleanup_raised = FALSE
    /\ reports = <<>>
    /\ attempted = {}
    /\ net_attempted = FALSE
    /\ snap = <<>>
    /\ calls = {}

InitMetrics ==
    /\ LifecyclePinned("idle", <<>>)
    /\ PollIdle
    /\ LogsIdle
    /\ ResolveIdle
    /\ m_pc = "call"
    /\ m_resp \in Responses
    /\ m_ret = <<>>

GetResourceMetrics ==
    /\ m_pc = "call"
    /\ m_ret' = get_resource_metrics(m_resp)
    /\ m_pc' = "returned"
    /\ UNCHANGED <<lifecycle_vars, resolve_vars, m_resp, poll_vars, logs_vars>>

NextMetrics == GetResourceMetrics

SpecMetrics == InitMetrics /\ [][NextMetrics]_vars

\* A line that float() does not reject: anything but a whitelisted-metric
\* line whose value is missing.
ParsesAlone(line) == SkipsLine(line) \/ FirstMatch(line) = 0 \/ line.numeric

\* C13: parsing is line-local: a whitelisted-metric line with a missing
\* value fails alone, so the result is the one the same response gives with
\* those lines left out; a line `go_goroutines 42` that is the last one for
\* its metric yields go_goroutines = 42 in a returned dict, and comment lines
\* yield nothing.
C13_ParsingIsLineLocal ==
    m_pc = "returned" =>
        /\ m_ret = get_resource_metrics(
                       [m_resp EXCEPT !.lines = SelectSeq(@, ParsesAlone)])
        /\ m_ret = get_resource_metrics(
                       [m_resp EXCEPT !.lines = SelectSeq(@, LAMBDA l : l.kind # "comment")])

\* The last line of the response whose metric name is exactly `name`, 0 for none.
LastExact(lines, name) ==
    LET at == {j \in 1..Len(lines) : lines[j].kind = "data" /\ lines[j].name = name}
    IN  IF at = {} THEN 0 ELSE CHOOSE j \in at : \A o \in at : o <= j

\* C19: the value recorded for a whitelisted name comes only from a data line
\* whose metric name is exactly that name; a line of a longer name that
\* begins with it never sets or overwrites the value.
C19_ExactNameOnly ==
    (m_pc = "returned" /\ m_ret.kind = "dict") =>
        \A m \in 1..Len(metric_names) :
            LET j == LastExact(m_resp.lines, metric_names[m])
            IN  j # 0 /\ m_ret.results[metric_names[m]] = m_resp.lines[j].v


\* ======================================================================
\* The polling loop of main() (src/experiments/simple.py)
\* ======================================================================

EXPERIMENT_DURATION_S == 60
POLL_INTERVAL_S == 5

\* Turns of the while loop that are followed.
MaxTicks == 3

\* Values the CPU counter of a node takes (0 before the first read).
Counters == {10, 25, 47}

\* What a counter that read c reads next: the same value or the next one.
NextCounters(c) ==
    {x \in Counters : x >= c /\ \A y \in Counters : y > c => x <= y}

\* A handle of a started container, as deploy_peer returns it.
Handle(id, name) == [id |-> id, name |-> name]

\* Meshes deploy() leaves behind: the bootstrap alone, with one peer, and
\* with two peers when get_free_ports(3) returned [1, 2, 2] and
\* get_free_ports(3) for the metrics ports [3, 4, 4]: both peers are then
\* named p2p-peer-node-2 and publish the same port.
Meshes ==
    {<<NodeInfo(Handle(3, BOOTSTRAP_NAME), 1, 2)>>,
     <<NodeInfo(Handle(3, BOOTSTRAP_NAME), 1, 3),
       NodeInfo(Handle(4, PeerName(2)), 2, 4)>>,
     <<NodeInfo(Handle(3, BOOTSTRAP_NAME), 1, 3),
       NodeInfo(Handle(4, PeerName(2)), 2, 4),
       NodeInfo(Handle(5, PeerName(2)), 2, 4)>>}

\* A number a / b with b > 0 (Python's float result of a division).
Ratio(a, b) == <<a, b>>
RatEq(x, y) == x[1] * y[2] = y[1] * x[2]

\* What the endpoint of a node answers: outcome names the case.
Complete(c) ==
    Response("ok", <<Data(process_cpu_seconds_total, c),
                     Data(go_memstats_alloc_bytes, 7),
                     Data(go_goroutines, 42)>>)
Incomplete == Response("ok", <<Comment, Data(go_goroutines, 42)>>)

Answers(port) ==
    {[outcome |-> "unreachable", response |-> Response("unreachable", <<>>), c |-> counter[port]],
     [outcome |-> "http_error", response |-> Response("http_error", <<>>), c |-> counter[port]],
     [outcome |-> "incomplete", response |-> Incomplete, c |-> counter[port]]}
        \cup {[outcome |-> "ok", response |-> Complete(c), c |-> c] :
                  c \in NextCounters(counter[port])}

elapsed_time == tick * POLL_INTERVAL_S

\* The rate main() computes for a sample of node_name with counter value cpu.
cpu_rate(node_name, cpu) ==
    IF node_name \in DOMAIN last_poll_cpu
    THEN LET last_cpu_val == last_poll_cpu[node_name][1]
             last_time == last_poll_cpu[node_name][2]
             time_delta == elapsed_time - last_time
         IN  IF time_delta > 0 THEN Ratio(cpu - last_cpu_val, time_delta)
             ELSE Ratio(0, 1)
    ELSE Ratio(0, 1)

Sample(node, metrics) ==
    [time_elapsed_s |-> elapsed_time,
     node_name |-> node.container.name,
     role |-> IF node = bootstrap_node THEN "bootstrap" ELSE "peer",
     cpu_rate |-> cpu_rate(node.container.name, metrics.results[process_cpu_seconds_total]),
     mem_alloc_mb |-> Ratio(metrics.results[go_memstats_alloc_bytes], 1024 * 1024),
     goroutines |-> metrics.results[go_goroutines]]

InitPoll ==
    /\ \E ns \in Meshes : LifecyclePinned("body", ns)
    /\ MetricsIdle
    /\ LogsIdle
    /\ ResolveIdle
    /\ t_pc = "poll"
    /\ tick = 0
    /\ tk = 1
    /\ last_poll_cpu = EmptyMap
    /\ all_metrics_data = <<>>
    /\ counter = [p \in {nodes[k].metrics_port : k \in 1..Len(nodes)} |-> 0]
    /\ own_prev = EmptyMap
    /\ last_poll = <<>>
    /\ polled = {}

\* One turn of `for node in mesh.nodes`.
PollNode ==
    /\ t_pc = "poll"
    /\ tk <= Len(nodes)
    /\ \E a \in Answers(nodes[tk].metrics_port) :
          LET node == nodes[tk]
              metrics == get_resource_metrics(a.response)
          IN  /\ counter' = [counter EXCEPT ![node.metrics_port] = a.c]
              /\ last_poll' = [node |-> tk, outcome |-> a.outcome]
              /\ polled' = polled \cup {tk}
              /\ IF Falsy(metrics)
                 THEN \* continue
                      /\ tk' = tk + 1
                      /\ UNCHANGED <<t_pc, last_poll_cpu, all_metrics_data, own_prev>>
                 ELSE IF metrics.kind = "None"
                 THEN \* metrics["process_cpu_seconds_total"] on None: TypeError
                      /\ t_pc' = "raised"
                      /\ UNCHANGED <<tk, last_poll_cpu, all_metrics_data, own_prev>>
                 ELSE /\ all_metrics_data' = Append(all_metrics_data, Sample(node, metrics))
                      /\ last_poll_cpu' = Put(last_poll_cpu, node.container.name,
                                              <<metrics.results[process_cpu_seconds_total],
                                                elapsed_time>>)
                      /\ own_prev' = Put(own_prev, tk,
                                         <<metrics.results[process_cpu_seconds_total],
                                           elapsed_time>>)
                      /\ tk' = tk + 1
                      /\ UNCHANGED t_pc
    /\ UNCHANGED <<lifecycle_vars, resolve_vars, metrics_vars, logs_vars, tick>>

\* `while time.time() - start_time < EXPERIMENT_DURATION_S` after the sleep.
AnotherTurn(t) == t * POLL_INTERVAL_S < EXPERIMENT_DURATION_S /\ t < MaxTicks

\* time.sleep(POLL_INTERVAL_S), and the loop goes round.
NextTurn ==
    /\ t_pc = "poll"
    /\ tk > Len(nodes)
    /\ AnotherTurn(tick + 1)
    /\ tick' = tick + 1
    /\ tk' = 1
    /\ polled' = {}
    /\ UNCHANGED <<lifecycle_vars, resolve_vars, metrics_vars, logs_vars, t_pc, last_poll_cpu,
                   all_metrics_data, counter, own_prev, last_poll>>

\* time.sleep(POLL_INTERVAL_S), and the loop is left.
LoopEnds ==
    /\ t_pc = "poll"
    /\ tk > Len(nodes)
    /\ ~AnotherTurn(tick + 1)
    /\ tick' = tick + 1
    /\ t_pc' = "done"
    /\ UNCHANGED <<lifecycle_vars, resolve_vars, metrics_vars, logs_vars, tk, last_poll_cpu,
                   all_metrics_data, counter, own_prev, last_poll, polled>>

NextPoll == PollNode \/ NextTurn \/ LoopEnds

SpecPoll == InitPoll /\ [][NextPoll]_vars

\* The step records a sample.
Recorded == Len(all_metrics_data') = Len(all_metrics_data) + 1

\* The rate of a sample of node k whose counter reads c at time t, from the
\* node's own previous recorded sample.
OwnRate(k, c, t) ==
    IF k \in DOMAIN own_prev /\ t - own_prev[k][2] > 0
    THEN Ratio(c - own_prev[k][1], t - own_prev[k][2])
    ELSE Ratio(0, 1)

\* C12: the CPU rate of every recorded sample is 0 when the instance has no
\* earlier recorded sample or no time has passed since it, and otherwise
\* (counter_now - counter_prev) / (t_now - t_prev) with prev the most recent
\* recorded sample of that same instance.
C12_RateFromOwnPreviousSample ==
    [][Recorded =>
          RatEq(all_metrics_data'[Len(all_metrics_data')].cpu_rate,
                OwnRate(tk, counter'[nodes[tk].metrics_port], elapsed_time))]_vars

\* The step is a poll that failed.
FailedPoll == tk' = tk + 1 /\ last_poll'.outcome # "ok"

\* C18: a failed poll appends no sample and leaves the stored previous
\* samples unchanged, the loop goes on to the next instance without raising,
\* and every tracked instance has been polled when a turn ends.
C18_FailedPollIsLocal ==
    /\ [](t_pc # "raised")
    /\ [][FailedPoll => /\ all_metrics_data' = all_metrics_data
                        /\ last_poll_cpu' = last_poll_cpu
                        /\ t_pc' = "poll"]_vars
    /\ [][tick' # tick => polled = 1..Len(nodes)]_vars

\* Reached: in the second turn the bootstrap's poll failed after it had a
\* recorded sample, and the peer is polled next.
C18_Witness ==
    /\ t_pc = "poll"
    /\ tick = 1
    /\ Len(nodes) = 2
    /\ tk = 2
    /\ last_poll = [node |-> 1, outcome |-> "http_error"]
    /\ 1 \in DOMAIN own_prev
    /\ Len(all_metrics_data) = 2


\* ======================================================================
\* analyze_logs (src/main.py)
\* ======================================================================

\* `/ 1_000_000`: nanoseconds in a millisecond.
NsPerMs == 1000000

\* Lines of a log that are followed, per container.
MaxLogLines == 2

\* container.name of the containers main() passes, in order.
LogContainers == <<"bootstrap-node", "peer-node-0">>

\* One line of a log.  kind: "text" (json.loads raises JSONDecodeError),
\* "scalar" (valid JSON that is not an object), "object".  fields are the
\* keys of an object.
LogLine(kind, fields, event, msg_id, timestamp_ns) ==
    [kind |-> kind, fields |-> fields, event |-> event, msg_id |-> msg_id,
     timestamp_ns |-> timestamp_ns]

Text == LogLine("text", {}, "", 0, 0)
Scalar == LogLine("scalar", {}, "", 0, 0)
\* An object without an `event` key, such as a start-up message.
Plain == LogLine("object", {"level", "msg"}, "NaN", 0, 0)
Event(event, msg_id, timestamp_ns) ==
    LogLine("object", {"event", "msg_id", "timestamp_ns"}, event, msg_id, timestamp_ns)
Broadcast(msg_id, timestamp_ns) == Event("message_broadcast", msg_id, timestamp_ns)
Received(msg_id, timestamp_ns) == Event("message_received", msg_id, timestamp_ns)

LogLineUniverse ==
    {Text, Scalar, Plain,
     Broadcast(7, 1000), Broadcast(9, 1500),
     Received(7, 1500), Received(7, 900), Received(9, 2000)}

\* container.logs(): the lines, or docker.errors.NotFound.
Log(found, lines) == [found |-> found, lines |-> lines]

Logs == {Log(FALSE, <<>>)} \cup {Log(TRUE, ls) : ls \in SeqsUpTo(LogLineUniverse, MaxLogLines)}

\* A row of the DataFrame: the entry, its container_name, and its index.
Row(line, name, row) ==
    [fields |-> line.fields \cup {"container_name"}, event |-> line.event,
     msg_id |-> line.msg_id, timestamp_ns |-> line.timestamp_ns,
     container_name |-> name, row |-> row]

\* `for line in logs.strip().split("\n")` from line j on.  A line that is
\* JSON but not an object makes log_entry["container_name"] = ... raise
\* TypeError, which nothing in analyze_logs catches.
RECURSIVE ReadLines(_, _, _, _)
ReadLines(lines, j, name, all_logs) ==
    IF j > Len(lines) THEN [raised |-> FALSE, all_logs |-> all_logs]
    ELSE IF lines[j].kind = "text" THEN ReadLines(lines, j + 1, name, all_logs)
    ELSE IF lines[j].kind = "scalar" THEN [raised |-> TRUE, all_logs |-> all_logs]
    ELSE ReadLines(lines, j + 1, name,
                   Append(all_logs, Row(lines[j], name, Len(all_logs) + 1)))

\* `for container in containers` from container c on.
RECURSIVE Collect(_, _, _)
Collect(logs, c, all_logs) ==
    IF c > Len(LogContainers) THEN [raised |-> FALSE, all_logs |-> all_logs]
    ELSE IF ~logs[c].found THEN Collect(logs, c + 1, all_logs)
    ELSE LET r == ReadLines(logs[c].lines, 1, LogContainers[c], all_logs)
         IN  IF r.raised THEN r ELSE Collect(logs, c + 1, r.all_logs)

\* The columns of pd.DataFrame(all_logs).
Columns(df) == UNION {df[r].fields : r \in 1..Len(df)}

\* Mutant: the last broadcast (iloc[-1]).
iloc0_Last(df) == df[Len(df)]

\* broadcast_df.iloc[0]
iloc0(df) == df[1]

\* Mutant: the difference in microseconds.
latency_ms_Micro(timestamp_ns, broadcast_time) == Ratio(timestamp_ns - broadcast_time, 1000)

\* (received_df["timestamp_ns"] - broadcast_time) / 1_000_000
latency_ms(timestamp_ns, broadcast_time) == Ratio(timestamp_ns - broadcast_time, NsPerMs)

\* What analyze_logs does: return None, return a Series (entries keep the
\* index of their row), or raise.
NoData == [kind |-> "None", series |-> <<>>, error |-> ""]
Series(entries) == [kind |-> "Series", series |-> entries, error |-> ""]
Raises(error) == [kind |-> "raised", series |-> <<>>, error |-> error]

analyze_logs(logs) ==
    LET collected == Collect(logs, 1, <<>>)
        df == collected.all_logs
    IN  IF collected.raised THEN Raises("TypeError")
        ELSE IF df = <<>> THEN NoData
        ELSE IF "event" \notin Columns(df) THEN Raises("KeyError")
        ELSE LET broadcast_df == SelectSeq(df, LAMBDA r : r.event = "message_broadcast")
             IN  IF broadcast_df = <<>> THEN NoData
                 ELSE LET broadcast_event == iloc0(broadcast_df)
                          msg_id == broadcast_event.msg_id
                          broadcast_time == broadcast_event.timestamp_ns
                          received_df ==
                              SelectSeq(df, LAMBDA r : /\ r.event = "message_received"
                                                       /\ r.msg_id = msg_id)
                          latencies ==
                              [k \in 1..Len(received_df) |->
                                  [row |-> received_df[k].row,
                                   latency_ms |-> latency_ms(received_df[k].timestamp_ns,
                                                             broadcast_time)]]
                      IN  IF received_df = <<>> THEN NoData
                          ELSE Series(SelectSeq(latencies,
                                                LAMBDA e : e.latency_ms[1] >= 0))

InitLogs ==
    /\ LifecyclePinned("idle", <<>>)
    /\ MetricsIdle
    /\ PollIdle
    /\ ResolveIdle
    /\ a_pc = "call"
    /\ a_logs \in [1..Len(LogContainers) -> Logs]
    /\ a_ret = <<>>

AnalyzeLogs ==
    /\ a_pc = "call"
    /\ a_ret' = analyze_logs(a_logs)
    /\ a_pc' = "returned"
    /\ UNCHANGED <<lifecycle_vars, resolve_vars, metrics_vars, poll_vars, a_logs>>

NextLogs == AnalyzeLogs

SpecLogs == InitLogs /\ [][NextLogs]_vars

\* The events of the logs: the object lines of the containers whose logs
\* were found, containers in order, lines in log order.
RECURSIVE EventsFrom(_, _)
EventsFrom(logs, c) ==
    IF c > Len(LogContainers) THEN <<>>
    ELSE (IF logs[c].found
          THEN SelectSeq(logs[c].lines, LAMBDA l : l.kind = "object")
          ELSE <<>>) \o EventsFrom(logs, c + 1)

Events == EventsFrom(a_logs, 1)

\* Some line of a found log is JSON but not an object.
HasScalar == \E c \in 1..Len(LogContainers) :
                 a_logs[c].found /\ \E j \in 1..Len(a_logs[c].lines) : a_logs[c].lines[j].kind = "scalar"

BroadcastsAt == {r \in 1..Len(Events) : Events[r].event = "message_broadcast"}
FirstBroadcastAt == CHOOSE r \in BroadcastsAt : \A o \in BroadcastsAt : r <= o

\* The received events with the msgId of the first broadcast.
MatchingAt ==
    {r \in 1..Len(Events) : /\ Events[r].event = "message_received"
                            /\ Events[r].msg_id = Events[FirstBroadcastAt].msg_id}

\* C14: with a broadcast in the logs (and every JSON line an object), the
\* first broadcast found is the authoritative one: nothing is raised, the
\* returned latencies are one per received event that has its msgId and a
\* timestamp not before its own, each equal to the timestamp difference
\* divided by 1e6 and not negative; None is returned only when no received
\* event has its msgId.
C14_FirstBroadcastIsAuthoritative ==
    (a_pc = "returned" /\ ~HasScalar /\ BroadcastsAt # {}) =>
        LET b == Events[FirstBroadcastAt]
            good == {r \in MatchingAt : Events[r].timestamp_ns >= b.timestamp_ns}
            out == a_ret.series
        IN  /\ a_ret.kind # "raised"
            /\ a_ret.kind = "None" => MatchingAt = {}
            /\ a_ret.kind = "Series" =>
                  /\ {out[k].row : k \in 1..Len(out)} = good
                  /\ Len(out) = Cardinality(good)
                  /\ \A k \in 1..Len(out) :
                        /\ out[k].latency_ms[1] >= 0
                        /\ RatEq(out[k].latency_ms,
                                 Ratio(Events[out[k].row].timestamp_ns - b.timestamp_ns,
                                       1000000))

\* Reached: two broadcasts with different msgIds are in the logs, one
\* latency is returned, and a received event contributed none.
C14_Witness ==
    /\ a_pc = "returned"
    /\ ~HasScalar
    /\ \E x, y \in BroadcastsAt : Events[x].msg_id # Events[y].msg_id
    /\ a_ret.kind = "Series"
    /\ Len(a_ret.series) = 1
    /\ \E r \in 1..Len(Events) :
          Events[r].event = "message_received" /\ r # a_ret.series[1].row

\* The logs hold exactly the broadcast {7, 1000} and the received events
\* {7, 1500}, {7, 900}, {9, 2000}, in any order and in any container.
FourEvents ==
    /\ ~HasScalar
    /\ Len(Events) = 4
    /\ {Events[r] : r \in 1..4}
           = {Broadcast(7, 1000), Received(7, 1500), Received(7, 900), Received(9, 2000)}

\* C15 as stated: for these four events exactly one latency is returned, 0.5 ms.
C15_HalfMillisecond ==
    (a_pc = "returned" /\ FourEvents) =>
        /\ a_ret.kind = "Series"
        /\ Len(a_ret.series) = 1
        /\ RatEq(a_ret.series[1].latency_ms, Ratio(1, 2))

\* C15, amended: for these four events exactly one latency is returned, that
\* of the received event {7, 1500}: 500 ns / 1e6 = 0.0005 ms; the other two
\* received events are discarded.
C15_HalfMicrosecond ==
    (a_pc = "returned" /\ FourEvents) =>
        /\ a_ret.kind = "Series"
        /\ Len(a_ret.series) = 1
        /\ Events[a_ret.series[1].row] = Received(7, 1500)
        /\ RatEq(a_ret.series[1].latency_ms, Ratio(5, 10000))

C15_Witness == a_pc = "returned" /\ FourEvents /\ a_ret.kind = "Series"

\* C16: None is returned whenever the logs hold no broadcast event or no
\* received event with the first broadcast's msgId, also when no line carries
\* an `event` field and when every matching received event is earlier than
\* the broadcast.
C16_NoDataIsNone ==
    (/\ a_pc = "returned"
     /\ ~HasScalar
     /\ \/ BroadcastsAt = {}
        \/ \A r \in MatchingAt :
               Events[r].timestamp_ns < Events[FirstBroadcastAt].timestamp_ns)
        => a_ret = NoData


\* ======================================================================
\* get_peer_id (src/src/mesh.py) on the text of the log
\* ======================================================================

\* Lines of the log that are followed.
MaxLogLen == 2

\* A line is the sequence of its characters; "12D" stands for the three
\* characters of the prefix and " " for a white-space character.
IdPrefix == <<"12D">>
EmptyLine == <<>>
IdLine == <<"12D", "K">>
PaddedIdLine == <<" ", "12D", "K", " ">>
OtherLine == <<"x">>

ResolveLines == {EmptyLine, IdLine, PaddedIdLine, OtherLine}

\* The logs a container may have written.
ResolveLogs == SeqsUpTo(ResolveLines, MaxLogLen)

\* str.strip()
RECURSIVE lstrip(_)
lstrip(str) == IF str # <<>> /\ str[1] = " " THEN lstrip(Tail(str)) ELSE str

RECURSIVE rstrip(_)
rstrip(str) ==
    IF str # <<>> /\ str[Len(str)] = " "
    THEN rstrip(SubSeq(str, 1, Len(str) - 1))
    ELSE str

strip(str) == rstrip(lstrip(str))

\* logs.strip() on a text of several lines removes the white-space lines at
\* both ends with their newlines, then the white space at the start of the
\* first line left and at the end of the last one.
RECURSIVE DropBlankHead(_)
DropBlankHead(ls) ==
    IF ls # <<>> /\ lstrip(ls[1]) = <<>> THEN DropBlankHead(Tail(ls)) ELSE ls

RECURSIVE DropBlankTail(_)
DropBlankTail(ls) ==
    IF ls # <<>> /\ lstrip(ls[Len(ls)]) = <<>>
    THEN DropBlankTail(SubSeq(ls, 1, Len(ls) - 1))
    ELSE ls

\* logs.strip().split("\n"): never empty, "" splits into [""].
strip_split(logs) ==
    LET kept == DropBlankTail(DropBlankHead(logs))
    IN  IF kept = <<>> THEN <<EmptyLine>>
        ELSE [k \in 1..Len(kept) |->
                LET a == IF k = 1 THEN lstrip(kept[k]) ELSE kept[k]
                IN  IF k = Len(kept) THEN rstrip(a) ELSE a]

\* What get_peer_id returns: None, or a string.
NoPeerId == [kind |-> "None", id |-> <<>>]
PeerId(str) == [kind |-> "str", id |-> str]

\* Mutant: the last line is returned.
Returned_Last(lines) == PeerId(strip(lines[Len(lines)]))

\* `return lines[0].strip()`
Returned(lines) == PeerId(strip(lines[1]))

\* One reading of the log inside the loop: the string returned, or NoPeerId
\* when the loop goes on.
ReadPeerId(logs) ==
    IF logs # <<>>
    THEN LET lines == strip_split(logs)
         IN  IF lines # <<>> /\ startswith(lines[1], IdPrefix)
             THEN Returned(lines)
             ELSE NoPeerId
    ELSE NoPeerId

InitResolve ==
    /\ LifecyclePinned("get_peer_id", <<>>)
    /\ MetricsIdle
    /\ PollIdle
    /\ LogsIdle
    /\ g_pc = "loop"
    /\ g_elapsed = 0
    /\ g_log = <<>>
    /\ g_ret = <<>>

\* One turn of the while loop: the container has written more of its log (or
\* nothing), container.logs() reads it, and get_peer_id returns or sleeps.
ResolvePoll ==
    /\ g_pc = "loop"
    /\ g_elapsed < TimeoutTicks
    /\ \E logs \in {l \in ResolveLogs : startswith(l, g_log)} :
          /\ g_log' = logs
          /\ IF ReadPeerId(logs) # NoPeerId
             THEN /\ g_ret' = ReadPeerId(logs)
                  /\ g_pc' = "returned"
                  /\ UNCHANGED g_elapsed
             ELSE /\ g_elapsed' = g_elapsed + SleepTicks
                  /\ UNCHANGED <<g_pc, g_ret>>
    /\ UNCHANGED <<lifecycle_vars, metrics_vars, poll_vars, logs_vars>>

\* container.logs() raises: nothing in get_peer_id catches it.
ResolveLogsFail ==
    /\ g_pc = "loop"
    /\ g_elapsed < TimeoutTicks
    /\ g_pc' = "raised"
    /\ UNCHANGED <<lifecycle_vars, metrics_vars, poll_vars, logs_vars, g_elapsed, g_log, g_ret>>

\* The while test fails: the timeout is logged and None returned.
ResolveTimeout ==
    /\ g_pc = "loop"
    /\ ~(g_elapsed < TimeoutTicks)
    /\ g_ret' = NoPeerId
    /\ g_pc' = "returned"
    /\ UNCHANGED <<lifecycle_vars, metrics_vars, poll_vars, logs_vars, g_elapsed, g_log>>

NextResolve == ResolvePoll \/ ResolveLogsFail \/ ResolveTimeout

SpecResolve == InitResolve /\ [][NextResolve]_vars

\* The thread running get_peer_id is not stopped: a step that can be taken is
\* taken.
SpecResolveFair == SpecResolve /\ WF_vars(NextResolve)

\* C21 as stated: a returned identity is the stripped first line of the log,
\* which begins with the prefix; no other line is ever returned.
C21_OnlyTheFirstLine ==
    (g_pc = "returned" /\ g_ret # NoPeerId) =>
        /\ startswith(strip(g_log[1]), IdPrefix)
        /\ g_ret = PeerId(strip(g_log[1]))

\* The lines of the log that are not white space only.
NonBlankAt(logs) == {k \in 1..Len(logs) : strip(logs[k]) # <<>>}
FirstNonBlankAt(logs) == CHOOSE k \in NonBlankAt(logs) : \A o \in NonBlankAt(logs) : k <= o

\* The first line that is not white space begins with the prefix.
Resolvable(logs) ==
    NonBlankAt(logs) # {} /\ startswith(strip(logs[FirstNonBlankAt(logs)]), IdPrefix)

\* C21, amended: get_peer_id always ends (it returns, or container.logs()
\* raises); it returns at the first poll at which the first line of the log
\* that is not white space begins with the prefix, and returns that line
\* stripped; it returns None only once the timeout has elapsed without such
\* a poll; an identity after a non-matching non-blank line is never returned.
C21_FirstNonBlankLine ==
    /\ <>(g_pc \in {"returned", "raised"})
    /\ [](g_pc = "returned" =>
            IF g_ret = NoPeerId
            THEN g_elapsed >= TimeoutTicks /\ ~Resolvable(g_log)
            ELSE Resolvable(g_log) /\ g_ret = PeerId(strip(g_log[FirstNonBlankAt(g_log)])))
    /\ [][g_pc' = "loop" => ~Resolvable(g_log')]_vars

\* Reached: the identity was returned from a padded line behind an empty
\* first line, after at least one poll that found nothing.
C21_Witness ==
    /\ g_pc = "returned"
    /\ g_elapsed > 0
    /\ g_log = <<EmptyLine, PaddedIdLine>>
    /\ g_ret = PeerId(IdLine)


\* ---------------------------------------------------------------- C22
\* The logs with only their structured records (JSON objects) left.
RecordsOnly(logs) ==
    [c \in DOMAIN logs |->
        Log(logs[c].found, SelectSeq(logs[c].lines, LAMBDA l : l.kind = "object"))]

\* C22: every line that is not a structured record, be it invalid JSON or
\* JSON that is not an object, is skipped without aborting: analyze_logs
\* gives what it gives for the same logs without those lines.
C22_NonRecordsAreSkipped ==
    a_pc = "returned" => a_ret = analyze_logs(RecordsOnly(a_logs))


\* ======================================================================
\* Mesh.cleanup (src/src/mesh.py) with its calls recorded
\* ======================================================================

\* A running container of this mesh, as deploy_peer starts it.
Running(id, name, ports, bp) ==
    [id |-> id, name |-> name, status |-> "running", ports |-> ports, bp |-> bp,
     net |-> 2]

\* Meshes a successful deploy() leaves, with the containers in the runtime:
\* the bootstrap alone, with one peer, and with two peers of one name, the
\* first of which the second evicted.
CleanupShapes ==
    {[nodes |-> <<NodeInfo(Handle(3, BOOTSTRAP_NAME), 1, 2)>>,
      ctrs |-> {Running(3, BOOTSTRAP_NAME, {1, 2}, None)},
      next_id |-> 4],
     [nodes |-> <<NodeInfo(Handle(3, BOOTSTRAP_NAME), 1, 3),
                  NodeInfo(Handle(4, PeerName(2)), 2, 4)>>,
      ctrs |-> {Running(3, BOOTSTRAP_NAME, {1, 3}, None),
                Running(4, PeerName(2), {2, 4}, 3)},
      next_id |-> 5],
     [nodes |-> <<NodeInfo(Handle(3, BOOTSTRAP_NAME), 1, 3),
                  NodeInfo(Handle(4, PeerName(2)), 2, 4),
                  NodeInfo(Handle(5, PeerName(2)), 2, 4)>>,
      ctrs |-> {Running(3, BOOTSTRAP_NAME, {1, 3}, None),
                Running(5, PeerName(2), {2, 4}, 3)},
      next_id |-> 6]}

\* cleanup() has just been entered for the first time on the mesh of shape
\* sh: by __exit__ after the body (that raised or not), or by a direct call.
CleanupEntered(sh, u, raised) ==
    /\ pc = "cleanup"
    /\ usage = u
    /\ num_peers = Len(sh.nodes) - 1
    /\ network = 2
    /\ nodes = sh.nodes
    /\ api_ports = <<>>
    /\ metrics_ports = <<>>
    /\ bootstrap_peer_id = None
    /\ i = 0
    /\ elapsed = 0
    /\ bootlog = "id"
    /\ rt_nets = {2}
    /\ rt_ctrs = sh.ctrs
    /\ next_id = sh.next_id
    /\ exc = IF raised THEN "BodyError" ELSE "none"
    /\ caught = "none"
    /\ cj = 1
    /\ launched = {sh.nodes[k].container.id : k \in 1..Len(sh.nodes)}
    /\ deploy_ok = TRUE
    /\ body_raised = raised
    /\ cleanup_calls = 1
    /\ cleanup_raised = FALSE
    /\ reports = {}
    /\ attempted = {}
    /\ net_attempted = FALSE
    /\ snap = <<{2}, sh.ctrs>>
    /\ calls = {}

InitCleanup ==
    /\ \E sh \in CleanupShapes :
          \/ \E raised \in BOOLEAN : CleanupEntered(sh, "with", raised)
          \/ CleanupEntered(sh, "direct", FALSE)
    /\ MetricsIdle
    /\ PollIdle
    /\ LogsIdle
    /\ ResolveIdle

NextCleanup == NodeCleanupTraced \/ NetworkCleanup \/ CleanupReturns

SpecCleanup == InitCleanup /\ [][NextCleanup]_vars

\* ---------------------------------------------------------------- C23
\* The calls made on tracked instance k in the current cleanup call.
CallsOn(k, op) == {c \in calls : c[1] = k /\ c[2] = op}

\* stop() on tracked instance k raised.
StopFailed(k) == \E c \in CallsOn(k, "stop") : c[3] # "none"

\* C23: in a cleanup call, remove() is attempted on a tracked instance only
\* when stop() on it returned without error; after a failed stop() (not
\* found or any other error) its remove() is skipped, cleanup still goes on
\* to the next instance, and once every instance has been visited the
\* removal of the network (when the mesh has one) is attempted.
C23_RemoveOnlyAfterStop ==
    /\ \A k \in attempted :
          /\ CallsOn(k, "stop") # {}
          /\ CallsOn(k, "remove") # {} <=> ~StopFailed(k)
    /\ \A c \in calls : c[1] \in attempted
    /\ pc = "cleanup" => attempted = 1..(cj - 1)
    /\ net_attempted => attempted = 1..Len(nodes)
    /\ pc = "cleanup_ret"
          => /\ ~cleanup_raised
             /\ attempted = 1..Len(nodes)
             /\ network # None => net_attempted

\* Reached: stop() failed on the bootstrap with an error other than not
\* found, its container is still running, the peer after it was stopped and
\* removed, and the network removal was attempted.
C23_Witness ==
    /\ pc = "cleanup_ret"
    /\ Len(nodes) = 2
    /\ <<1, "stop", "APIError">> \in calls
    /\ CallsOn(1, "remove") = {}
    /\ \E c \in rt_ctrs : c.id = nodes[1].container.id /\ c.status = "running"
    /\ <<2, "remove", "none">> \in calls
    /\ net_attempted

====
